---- MODULE Spec2Model ----
(***************************************************************************)
(* Model of the quadtree of voodoos/rust-quadtree: the geometry helpers of *)
(* src/lib/geometry.rs, the QuadTree of src/lib/mod.rs (insert, split,     *)
(* update, draw), the element type of src/vals.rs and the driver loop of   *)
(* src/main.rs.                                                            *)
(*                                                                         *)
(* A tree is a function from node identifiers to node records.  A node's   *)
(* identifier is its position below the root: <<>> for the root, and       *)
(* Append(p, k) for the k-th node pushed on the children vector of p.      *)
(* Coordinates stay far from the i32/u32 limits, so the arithmetic of the  *)
(* source is modelled on the integers.                                     *)
(***************************************************************************)
EXTENDS Integers, Sequences, FiniteSets, TLC

VARIABLES
    tree,       \* the QuadTree owned by the caller: node id -> node
    panicked,   \* TRUE once a call aborted (index out of range)
    inserted,   \* log of the boxes passed to insert, in call order
    ticks,      \* number of update calls made by the API client
    changed,    \* value returned by the last update call
    pc,         \* position of the driver (main) or "client"/"geometry"
    canvas,     \* render requests issued on the target in the last draw
    exit,       \* result of main or of the client's draw: "running", "ok", "err"
    parent,     \* geometry: the box handed to quadrant_bbox
    quads,      \* geometry: quadrant -> box computed so far
    probe,      \* geometry: the box handed to is_inside and fits
    inside,     \* geometry: <<is_inside(probe, parent)>>, or <<>> before the call
    fit,        \* geometry: result of fits on the zone parent, or "unasked"
    stack       \* call stack of an insert executed one step at a time

vars == <<tree, panicked, inserted, ticks, changed, pc, canvas, exit, parent, quads,
          probe, inside, fit, stack>>

-----------------------------------------------------------------------------
(* Bounds of the model *)

MaxInserts == 3     \* insert calls made by the API client
MaxTicks == 2       \* update calls made by the API client
MaxExtent == 5      \* largest w and h of the boxes handed to quadrant_bbox
MaxProbe == 2       \* largest w and h of the boxes handed to is_inside and fits
MaxFailAt == 5      \* latest render request the target may reject

-----------------------------------------------------------------------------
(* src/lib/geometry.rs *)

AABB(x, y, w, h) == [x |-> x, y |-> y, w |-> w, h |-> h]

translate(box, dx, dy) == [box EXCEPT !.x = @ + dx, !.y = @ + dy]

\* is_inside with the far edges compared strictly.
is_inside_strict(self, other) ==
    /\ self.x >= other.x
    /\ self.x + self.w < other.x + other.w
    /\ self.y >= other.y
    /\ self.y + self.h < other.y + other.h

is_inside(self, other) ==
    /\ self.x >= other.x
    /\ self.x + self.w <= other.x + other.w
    /\ self.y >= other.y
    /\ self.y + self.h <= other.y + other.h

all == <<"TopLeft", "TopRight", "BottomLeft", "BottomRight">>

Quadrants == {all[i] : i \in 1..Len(all)}

\* The right and bottom quadrants start at offset w/2, h/2.
quadrant_bbox_no_gap(z, q) ==
    CASE q = "TopLeft" ->
            AABB(z.x, z.y, (z.w \div 2) + (z.w % 2), (z.h \div 2) + (z.h % 2))
      [] q = "TopRight" ->
            AABB(z.x + (z.w \div 2), z.y,
                 z.w - (z.w \div 2), (z.h \div 2) + (z.h % 2))
      [] q = "BottomLeft" ->
            AABB(z.x, z.y + (z.h \div 2),
                 (z.w \div 2) + (z.w % 2), z.h - (z.h \div 2))
      [] q = "BottomRight" ->
            AABB(z.x + (z.w \div 2), z.y + (z.h \div 2),
                 z.w - (z.w \div 2), z.h - (z.h \div 2))

\* The right and bottom quadrants get floor(w/2), floor(h/2).
quadrant_bbox_floor(z, q) ==
    CASE q = "TopLeft" ->
            AABB(z.x, z.y, (z.w \div 2) + (z.w % 2), (z.h \div 2) + (z.h % 2))
      [] q = "TopRight" ->
            AABB(z.x + (z.w \div 2 + 1), z.y, z.w \div 2, (z.h \div 2) + (z.h % 2))
      [] q = "BottomLeft" ->
            AABB(z.x, z.y + (z.h \div 2 + 1), (z.w \div 2) + (z.w % 2), z.h \div 2)
      [] q = "BottomRight" ->
            AABB(z.x + (z.w \div 2 + 1), z.y + (z.h \div 2 + 1), z.w \div 2, z.h \div 2)

quadrant_bbox(z, q) ==
    CASE q = "TopLeft" ->
            AABB(z.x, z.y, (z.w \div 2) + (z.w % 2), (z.h \div 2) + (z.h % 2))
      [] q = "TopRight" ->
            AABB(z.x + (z.w \div 2 + 1), z.y,
                 z.w - (z.w \div 2), (z.h \div 2) + (z.h % 2))
      [] q = "BottomLeft" ->
            AABB(z.x, z.y + (z.h \div 2 + 1),
                 (z.w \div 2) + (z.w % 2), z.h - (z.h \div 2))
      [] q = "BottomRight" ->
            AABB(z.x + (z.w \div 2 + 1), z.y + (z.h \div 2 + 1),
                 z.w - (z.w \div 2), z.h - (z.h \div 2))

-----------------------------------------------------------------------------
(* src/vals.rs *)

\* An element; id tells apart two elements with equal boxes (the n-th
\* element passed to insert has id n).
TestVal(id, bbox) == [id |-> id, bbox |-> bbox]

bounding_box(v) == v.bbox

\* An update of TestVal that reports a change and leaves the box in place.
TestValUpdateInPlace(v) ==
    [val |-> v, changed |-> TRUE]

\* Dynamic::update of TestVal: translate by (1, 0), report a change.
TestValUpdate(v) ==
    [val |-> [v EXCEPT !.bbox = translate(@, 1, 0)], changed |-> TRUE]

-----------------------------------------------------------------------------
(* src/lib/mod.rs: QuadTree *)

None == "None"

Root == <<>>

new(max_values, max_depth, x, y, w, h) ==
    [zone |-> AABB(x, y, w, h),
     max_values |-> max_values,
     max_depth |-> max_depth,
     children |-> <<>>,
     values |-> <<>>]

default == new(1, 4, 0, 0, 256, 256)

\* new_child that hands the parent's whole zone to the child.
new_child_keeps_zone(self, q) ==
    [zone |-> self.zone,
     max_depth |-> self.max_depth - 1,
     max_values |-> self.max_values,
     children |-> <<>>,
     values |-> <<>>]

new_child(self, q) ==
    [zone |-> quadrant_bbox(self.zone, q),
     max_depth |-> self.max_depth - 1,
     max_values |-> self.max_values,
     children |-> <<>>,
     values |-> <<>>]

is_leaf(self) == self.children = <<>>

\* First quadrant, in the order of all, whose box contains v's box.
\* fits testing only the origin of the element's box against the quadrants.
fits_by_origin(self, v) ==
    LET b == bounding_box(v)
        hit == {i \in 1..Len(all) :
                  is_inside(AABB(b.x, b.y, 0, 0), quadrant_bbox(self.zone, all[i]))}
    IN  IF hit = {} THEN None
        ELSE all[CHOOSE i \in hit : \A j \in hit : i <= j]

fits(self, v) ==
    LET hit == {i \in 1..Len(all) :
                  is_inside(bounding_box(v), quadrant_bbox(self.zone, all[i]))}
    IN  IF hit = {} THEN None
        ELSE all[CHOOSE i \in hit : \A j \in hit : i <= j]

\* The child indices in the reverse of the order in which split pushes.
ChildIndexReversed(q) ==
    CASE q = "TopLeft" -> 3
      [] q = "TopRight" -> 2
      [] q = "BottomLeft" -> 1
      [] q = "BottomRight" -> 0

\* children[0..3] of insert: the index used for each quadrant.
ChildIndex(q) ==
    CASE q = "TopLeft" -> 0
      [] q = "TopRight" -> 1
      [] q = "BottomLeft" -> 2
      [] q = "BottomRight" -> 3

\* The routing test of insert, with ">" in place of ">=".
TriesSubtreeStrict(self) ==
    \/ ~is_leaf(self)
    \/ (Len(self.values) > self.max_values /\ self.max_depth > 0)

\* The routing test of insert without the capacity test.
TriesSubtreeNoCapacity(self) ==
    \/ ~is_leaf(self)
    \/ self.max_depth > 0

\* The routing test of insert without the max_depth test.
TriesSubtreeAnyDepth(self) ==
    \/ ~is_leaf(self)
    \/ Len(self.values) >= self.max_values

\* The condition of insert under which the value is routed to a quadrant.
TriesSubtree(self) ==
    \/ ~is_leaf(self)
    \/ (Len(self.values) >= self.max_values /\ self.max_depth > 0)

\* The guard of split without the test that the node has no children yet.
CanSplitAnyNode(self) == self.max_depth > 0

\* The guard of split.
CanSplit(self) == self.children = <<>> /\ self.max_depth > 0

\* self.values.push(v) on node p
PushValue(h, p, v) == [h EXCEPT !.nodes[p].values = Append(@, v)]

\* self.children.push(new_child(self, q)) on node p
PushChild(h, p, q) ==
    LET c == Append(p, Len(h.nodes[p].children) + 1)
    IN  [h EXCEPT !.nodes = [@ EXCEPT ![p].children = Append(@, c)]
                                @@ (c :> new_child(h.nodes[p], q))]

RECURSIVE SpawnChildren(_, _, _)
SpawnChildren(h, p, qs) ==
    IF qs = <<>> THEN h
    ELSE SpawnChildren(PushChild(h, p, Head(qs)), p, Tail(qs))

\* The pop loop stopping while one value is left in the vector.
PopAllButOne(from) == [i \in 1..(Len(from) - 1) |-> from[Len(from) + 1 - i]]

\* while let Some(v) = from.pop() { vals.push_back(v) }: the popped values,
\* in the order they were pushed on vals.
RECURSIVE PopAll(_)
PopAll(from) ==
    IF from = <<>> THEN <<>>
    ELSE <<from[Len(from)]>> \o PopAll(SubSeq(from, 1, Len(from) - 1))

RECURSIVE insert(_, _, _)
RECURSIVE split(_, _)
RECURSIVE ReinsertAll(_, _, _)
RECURSIVE ReinsertAllFromFront(_, _, _)

\* insert on a branch or full leaf whose value fits no quadrant, splitting
\* the node before keeping the value.
insert_split_first(h, p, v) ==
    IF h.panic THEN h
    ELSE LET self == h.nodes[p] IN
         IF TriesSubtree(self)
         THEN LET q == fits(self, v)
                  s == split(h, p)
              IN  IF q = None THEN PushValue(s, p, v)
                  ELSE IF ChildIndex(q) >= Len(s.nodes[p].children)
                       THEN [s EXCEPT !.panic = TRUE]
                       ELSE insert(s, s.nodes[p].children[ChildIndex(q) + 1], v)
         ELSE PushValue(h, p, v)

\* QuadTree::insert on node p of heap h = [nodes, panic].
insert(h, p, v) ==
    IF h.panic THEN h
    ELSE LET self == h.nodes[p] IN
         IF TriesSubtree(self)
         THEN LET q == fits(self, v) IN
              IF q = None THEN PushValue(h, p, v)
              ELSE LET s == split(h, p) IN
                   IF s.panic THEN s
                   ELSE IF ChildIndex(q) >= Len(s.nodes[p].children)
                        THEN [s EXCEPT !.panic = TRUE]
                        ELSE insert(s, s.nodes[p].children[ChildIndex(q) + 1], v)
         ELSE PushValue(h, p, v)

\* The re-insertion loop taking the values with pop_front.
ReinsertAllFromFront(h, p, vals) ==
    IF vals = <<>> THEN h
    ELSE ReinsertAllFromFront(insert(h, p, vals[1]), p, Tail(vals))

\* while let Some(v) = vals.pop_back() { self.insert(v) }
ReinsertAll(h, p, vals) ==
    IF vals = <<>> THEN h
    ELSE ReinsertAll(insert(h, p, vals[Len(vals)]), p,
                     SubSeq(vals, 1, Len(vals) - 1))

\* QuadTree::split on node p.
split(h, p) ==
    IF h.panic THEN h
    ELSE IF CanSplit(h.nodes[p])
         THEN LET spawned == SpawnChildren(h, p, all)
                  vals == PopAll(spawned.nodes[p].values)
                  emptied == [spawned EXCEPT !.nodes[p].values = <<>>]
              IN  ReinsertAll(emptied, p, vals)
         ELSE h

\* Vec::remove(i), i counted from 0; an index past the end aborts.
RECURSIVE RemoveMoved(_, _)
RemoveMoved(values, moved) ==
    IF moved = <<>> THEN [values |-> values, panic |-> FALSE]
    ELSE LET i == Head(moved) IN
         IF i >= Len(values) THEN [values |-> values, panic |-> TRUE]
         ELSE RemoveMoved(SubSeq(values, 1, i) \o SubSeq(values, i + 2, Len(values)),
                          Tail(moved))

\* The indices pushed on moved by the loop over values, in loop order.
RECURSIVE MovedFrom(_, _, _)
MovedFrom(results, zone, i) ==
    IF i >= Len(results) THEN <<>>
    ELSE (IF results[i + 1].changed
             /\ ~is_inside(bounding_box(results[i + 1].val), zone)
          THEN <<i>> ELSE <<>>)
         \o MovedFrom(results, zone, i + 1)

RECURSIVE update(_, _)
RECURSIVE UpdateChildren(_, _)

\* for t in &mut self.children { changed = t.update(delta) || changed }
UpdateChildren(h, cs) ==
    IF cs = <<>> \/ h.panic THEN h
    ELSE UpdateChildren(update(h, Head(cs)), Tail(cs))

\* QuadTree::update on node p of h = [nodes, panic, changed].
update(h, p) ==
    LET kids == UpdateChildren(h, h.nodes[p].children) IN
    IF kids.panic THEN kids
    ELSE LET self == kids.nodes[p]
             results == [i \in 1..Len(self.values) |-> TestValUpdate(self.values[i])]
             moved == MovedFrom(results, self.zone, 0)
             rem == RemoveMoved([i \in 1..Len(results) |-> results[i].val], moved)
         IN  [nodes |-> [kids.nodes EXCEPT ![p].values = rem.values],
              panic |-> rem.panic,
              changed |-> kids.changed \/ (\E i \in 1..Len(results) : results[i].changed)]


\* One render request on the target; a target that already rejected a
\* request receives no more (the ? operator returns the error at once).
\* st.accept is the number of requests the target still accepts, or -1
\* for a target that accepts everything.  The colour is not recorded.
DrawRect(st, kind, rect) ==
    IF st.err THEN st
    ELSE [reqs |-> Append(st.reqs, [kind |-> kind, rect |-> rect]),
          err |-> st.accept = 0,
          accept |-> IF st.accept > 0 THEN st.accept - 1 ELSE st.accept]

RECURSIVE DrawValues(_, _)
DrawValues(st, vs) ==
    IF vs = <<>> THEN st
    ELSE DrawValues(DrawRect(st, "value", bounding_box(Head(vs))), Tail(vs))

RECURSIVE draw(_, _, _)
RECURSIVE DrawChildren(_, _, _)

DrawChildren(nodes, cs, st) ==
    IF cs = <<>> THEN st
    ELSE DrawChildren(nodes, Tail(cs), draw(nodes, Head(cs), st))

\* draw with the children drawn before the node's own values.
draw_children_first(nodes, p, st) ==
    LET outlined == DrawRect(st, "zone", nodes[p].zone)
        withChildren == DrawChildren(nodes, nodes[p].children, outlined)
    IN  DrawValues(withChildren, nodes[p].values)

\* QuadTree::draw on node p.
draw(nodes, p, st) ==
    LET outlined == DrawRect(st, "zone", nodes[p].zone)
        withValues == DrawValues(outlined, nodes[p].values)
    IN  DrawChildren(nodes, nodes[p].children, withValues)

-----------------------------------------------------------------------------
(* The API client: a tree made by the constructor, then any sequence of    *)
(* insert and update calls.                                                *)

\* Arguments given to QuadTree::new.
Configs ==
    { [max_values |-> 1, max_depth |-> 4, zone |-> AABB(0, 0, 256, 256)],
      [max_values |-> 2, max_depth |-> 1, zone |-> AABB(0, 0, 16, 16)],
      [max_values |-> 0, max_depth |-> 2, zone |-> AABB(0, 0, 10, 10)] }

\* Boxes of the elements given to insert.
Boxes ==
    { AABB(14, 1, 2, 2), AABB(1, 9, 2, 2), AABB(1, 1, 1, 1),
      AABB(128, 1, 2, 2), AABB(130, 1, 2, 2), AABB(120, 10, 40, 10) }

NoGeometry ==
    /\ parent = AABB(0, 0, 0, 0)
    /\ quads = <<>>

\* No box was probed and no insert is in progress.
Idle ==
    /\ probe = AABB(0, 0, 0, 0)
    /\ inside = <<>>
    /\ fit = "unasked"
    /\ stack = <<>>

Init ==
    /\ \E c \in Configs :
          tree = (Root :> new(c.max_values, c.max_depth,
                              c.zone.x, c.zone.y, c.zone.w, c.zone.h))
    /\ panicked = FALSE
    /\ inserted = <<>>
    /\ ticks = 0
    /\ changed = FALSE
    /\ pc = "client"
    /\ canvas = <<>>
    /\ exit = "running"
    /\ NoGeometry
    /\ Idle

\* qt.insert(TestVal { bbox: b })
InsertCall(b) ==
    /\ pc = "client"
    /\ ~panicked
    /\ Len(inserted) < MaxInserts
    /\ LET r == insert([nodes |-> tree, panic |-> FALSE], Root,
                       TestVal(Len(inserted) + 1, b))
       IN  /\ tree' = r.nodes
           /\ panicked' = r.panic
    /\ inserted' = Append(inserted, b)
    /\ UNCHANGED <<ticks, changed, pc, canvas, exit, parent, quads,
                   probe, inside, fit, stack>>

\* qt.update(&delta)
UpdateCall ==
    /\ pc = "client"
    /\ ~panicked
    /\ ticks < MaxTicks
    /\ LET r == update([nodes |-> tree, panic |-> FALSE, changed |-> FALSE], Root)
       IN  /\ tree' = r.nodes
           /\ panicked' = r.panic
           /\ changed' = r.changed
    /\ ticks' = ticks + 1
    /\ UNCHANGED <<inserted, pc, canvas, exit, parent, quads,
                   probe, inside, fit, stack>>

Next ==
    \/ \E b \in Boxes : InsertCall(b)
    \/ UpdateCall

Spec == Init /\ [][Next]_vars

-----------------------------------------------------------------------------
(* src/main.rs: the driver *)

\* The boxes main inserts before entering its loop.
MainBoxes ==
    << AABB(1, 1, 10, 10), AABB(50, 50, 10, 10),
       AABB(150, 150, 10, 10), AABB(240, 240, 10, 10) >>

InitMain ==
    /\ tree = (Root :> default)
    /\ panicked = FALSE
    /\ inserted = <<>>
    /\ ticks = 0
    /\ changed = FALSE
    /\ pc = "seed"
    /\ canvas = <<>>
    /\ exit = "running"
    /\ NoGeometry
    /\ Idle

\* The next of the four qt.insert calls at the top of main.
MainSeed ==
    /\ pc = "seed"
    /\ ~panicked
    /\ LET b == MainBoxes[Len(inserted) + 1]
           r == insert([nodes |-> tree, panic |-> FALSE], Root,
                       TestVal(Len(inserted) + 1, b))
       IN  /\ tree' = r.nodes
           /\ panicked' = r.panic
           /\ inserted' = Append(inserted, b)
    /\ pc' = IF Len(inserted') = Len(MainBoxes) THEN "poll" ELSE "seed"
    /\ UNCHANGED <<ticks, changed, canvas, exit, parent, quads,
                   probe, inside, fit, stack>>

\* The event loop at the top of 'running: a quit event leaves the loop and
\* main returns Ok(()); otherwise main sleeps and goes on.
MainPoll ==
    /\ pc = "poll"
    /\ \E quit \in BOOLEAN :
          /\ pc' = IF quit THEN "done" ELSE "update"
          /\ exit' = IF quit THEN "ok" ELSE exit
    /\ UNCHANGED <<tree, panicked, inserted, ticks, changed, canvas, parent, quads,
                   probe, inside, fit, stack>>

\* qt.update(&Duration::new(0, 0))
MainUpdate ==
    /\ pc = "update"
    /\ LET r == update([nodes |-> tree, panic |-> FALSE, changed |-> FALSE], Root)
       IN  /\ tree' = r.nodes
           /\ panicked' = r.panic
           /\ changed' = r.changed
           /\ pc' = IF r.panic THEN "done" ELSE "draw"
    /\ UNCHANGED <<inserted, ticks, canvas, exit, parent, quads,
                   probe, inside, fit, stack>>

\* canvas.clear(); qt.draw(&mut canvas)?; canvas.present()
MainDraw ==
    /\ pc = "draw"
    /\ \E accept \in {-1} \cup 0..MaxFailAt :
          LET st == draw(tree, Root, [reqs |-> <<>>, err |-> FALSE, accept |-> accept])
          IN  /\ canvas' = st.reqs
              /\ pc' = IF st.err THEN "done" ELSE "poll"
              /\ exit' = IF st.err THEN "err" ELSE exit
    /\ UNCHANGED <<tree, panicked, inserted, ticks, changed, parent, quads,
                   probe, inside, fit, stack>>

NextMain ==
    \/ MainSeed
    \/ MainPoll
    \/ MainUpdate
    \/ MainDraw

SpecMain == InitMain /\ [][NextMain]_vars

\* main moves on to another position: possible exactly as long as main has
\* not returned, and done by every step of NextMain but the first three
\* inserts, which lead to the fourth.
MainProceeds ==
    /\ pc # "done"
    /\ pc' \in {"seed", "poll", "update", "draw", "done"}

\* main runs on one thread: as long as it has not returned it takes its
\* next step.
SpecMainFair == SpecMain /\ WF_pc(MainProceeds)

-----------------------------------------------------------------------------
(* The API client that draws: a tree made by the constructor, any sequence *)
(* of insert calls, then one draw call on a target that may reject a       *)
(* request.                                                                *)

\* qt.draw(&mut canvas); exit holds the Result the call returned.
DrawCall ==
    /\ pc = "client"
    /\ ~panicked
    /\ \E accept \in {-1} \cup 0..MaxFailAt :
          LET st == draw(tree, Root, [reqs |-> <<>>, err |-> FALSE, accept |-> accept])
          IN  /\ canvas' = st.reqs
              /\ exit' = IF st.err THEN "err" ELSE "ok"
    /\ pc' = "drawn"
    /\ UNCHANGED <<tree, panicked, inserted, ticks, changed, parent, quads,
                   probe, inside, fit, stack>>

NextDraw ==
    \/ \E b \in Boxes : InsertCall(b)
    \/ DrawCall

SpecDraw == Init /\ [][NextDraw]_vars

-----------------------------------------------------------------------------
(* Geometry on its own: quadrant_bbox applied to a box *)

ParentBoxes ==
    { AABB(x, y, w, h) : x \in {-2, 0}, y \in {0, 3}, w \in 0..MaxExtent, h \in 0..MaxExtent }

InitGeom ==
    /\ parent \in ParentBoxes
    /\ quads = <<>>
    /\ tree = (Root :> default)
    /\ panicked = FALSE
    /\ inserted = <<>>
    /\ ticks = 0
    /\ changed = FALSE
    /\ pc = "geometry"
    /\ canvas = <<>>
    /\ exit = "running"
    /\ Idle

\* Quadrant::quadrant_bbox(&parent, q)
ComputeQuadrant(q) ==
    /\ pc = "geometry"
    /\ q \notin DOMAIN quads
    /\ quads' = quads @@ (q :> quadrant_bbox(parent, q))
    /\ UNCHANGED <<tree, panicked, inserted, ticks, changed, pc, canvas, exit, parent,
                   probe, inside, fit, stack>>

NextGeom == \E q \in Quadrants : ComputeQuadrant(q)

SpecGeom == InitGeom /\ [][NextGeom]_vars

-----------------------------------------------------------------------------
(* Geometry on its own: is_inside and fits applied to a zone and a box *)

ZoneBoxes ==
    { AABB(x, 0, w, h) : x \in {-1, 0}, w \in 0..MaxExtent, h \in 0..MaxExtent }

ProbeBoxes ==
    { AABB(x, y, w, h) : x \in -2..(MaxExtent + 1), y \in -1..(MaxExtent + 1),
                         w \in 0..MaxProbe, h \in 0..MaxProbe }

InitFit ==
    /\ parent \in ZoneBoxes
    /\ probe \in ProbeBoxes
    /\ inside = <<>>
    /\ fit = "unasked"
    /\ stack = <<>>
    /\ quads = <<>>
    /\ tree = (Root :> default)
    /\ panicked = FALSE
    /\ inserted = <<>>
    /\ ticks = 0
    /\ changed = FALSE
    /\ pc = "geometry"
    /\ canvas = <<>>
    /\ exit = "running"

\* probe.is_inside(&parent)
IsInsideCall ==
    /\ pc = "geometry"
    /\ inside = <<>>
    /\ inside' = <<is_inside(probe, parent)>>
    /\ UNCHANGED <<tree, panicked, inserted, ticks, changed, pc, canvas, exit,
                   parent, quads, probe, fit, stack>>

\* fits(&v) on a node whose zone is parent, for an element whose box is probe
FitsCall ==
    /\ pc = "geometry"
    /\ fit = "unasked"
    /\ fit' = fits(new(1, 1, parent.x, parent.y, parent.w, parent.h),
                   TestVal(1, probe))
    /\ UNCHANGED <<tree, panicked, inserted, ticks, changed, pc, canvas, exit,
                   parent, quads, probe, inside, stack>>

NextFit == IsInsideCall \/ FitsCall

SpecFit == InitFit /\ [][NextFit]_vars

-----------------------------------------------------------------------------
(* insert executed one call and one loop iteration at a time: stack holds  *)
(* the activation records of insert and split, the innermost last.         *)

\* Arguments given to QuadTree::new by the client of the stepwise insert.
StepConfigs ==
    Configs \cup {[max_values |-> 0, max_depth |-> 0, zone |-> AABB(0, 0, 16, 16)]}

NoVal == TestVal(0, AABB(0, 0, 0, 0))

\* An activation record: fn is "insert" or "split", node is self, at is the
\* position in the body, v the argument of insert, q the quadrant matched
\* by insert, vals the list of split.
Frame(fn, node, at, v, q, vals) ==
    [fn |-> fn, node |-> node, at |-> at, v |-> v, q |-> q, vals |-> vals]

Top == stack[Len(stack)]

Popped == SubSeq(stack, 1, Len(stack) - 1)

WithTop(f) == [stack EXCEPT ![Len(stack)] = f]

InitSteps ==
    /\ \E c \in StepConfigs :
          tree = (Root :> new(c.max_values, c.max_depth,
                              c.zone.x, c.zone.y, c.zone.w, c.zone.h))
    /\ panicked = FALSE
    /\ inserted = <<>>
    /\ ticks = 0
    /\ changed = FALSE
    /\ pc = "stepping"
    /\ canvas = <<>>
    /\ exit = "running"
    /\ NoGeometry
    /\ Idle

\* qt.insert(v) called by the client.
CallInsert(b) ==
    /\ pc = "stepping"
    /\ stack = <<>>
    /\ ~panicked
    /\ Len(inserted) < MaxInserts
    /\ stack' = <<Frame("insert", Root, "entry", TestVal(Len(inserted) + 1, b), None, <<>>)>>
    /\ inserted' = Append(inserted, b)
    /\ UNCHANGED <<tree, panicked, ticks, changed, pc, canvas, exit, parent, quads,
                   probe, inside, fit>>

\* insert: the else branch, or the None arm of the match: push and return.
InsertPush ==
    /\ stack # <<>>
    /\ Top.fn = "insert" /\ Top.at = "entry"
    /\ \/ ~TriesSubtree(tree[Top.node])
       \/ fits(tree[Top.node], Top.v) = None
    /\ tree' = PushValue([nodes |-> tree, panic |-> FALSE], Top.node, Top.v).nodes
    /\ stack' = Popped
    /\ UNCHANGED <<panicked, inserted, ticks, changed, pc, canvas, exit, parent, quads,
                   probe, inside, fit>>

\* insert: the Some(q) arm calls self.split().
InsertCallsSplit ==
    /\ stack # <<>>
    /\ Top.fn = "insert" /\ Top.at = "entry"
    /\ TriesSubtree(tree[Top.node])
    /\ fits(tree[Top.node], Top.v) # None
    /\ stack' = Append(WithTop([Top EXCEPT !.at = "dispatch",
                                            !.q = fits(tree[Top.node], Top.v)]),
                       Frame("split", Top.node, "entry", NoVal, None, <<>>))
    /\ UNCHANGED <<tree, panicked, inserted, ticks, changed, pc, canvas, exit, parent,
                   quads, probe, inside, fit>>

\* split: the guard holds: spawn the children and pop the values into vals.
SplitSpawns ==
    /\ stack # <<>>
    /\ Top.fn = "split" /\ Top.at = "entry"
    /\ CanSplit(tree[Top.node])
    /\ LET spawned == SpawnChildren([nodes |-> tree, panic |-> FALSE], Top.node, all)
       IN  /\ tree' = [spawned.nodes EXCEPT ![Top.node].values = <<>>]
           /\ stack' = WithTop([Top EXCEPT !.at = "reinsert",
                                           !.vals = PopAll(tree[Top.node].values)])
    /\ UNCHANGED <<panicked, inserted, ticks, changed, pc, canvas, exit, parent, quads,
                   probe, inside, fit>>

\* split: the guard fails: return.
SplitSkips ==
    /\ stack # <<>>
    /\ Top.fn = "split" /\ Top.at = "entry"
    /\ ~CanSplit(tree[Top.node])
    /\ stack' = Popped
    /\ UNCHANGED <<tree, panicked, inserted, ticks, changed, pc, canvas, exit, parent,
                   quads, probe, inside, fit>>

\* split: one iteration of while let Some(v) = vals.pop_back() { self.insert(v) }
SplitReinserts ==
    /\ stack # <<>>
    /\ Top.fn = "split" /\ Top.at = "reinsert"
    /\ Top.vals # <<>>
    /\ stack' = Append(WithTop([Top EXCEPT !.vals = SubSeq(@, 1, Len(@) - 1)]),
                       Frame("insert", Top.node, "entry", Top.vals[Len(Top.vals)],
                             None, <<>>))
    /\ UNCHANGED <<tree, panicked, inserted, ticks, changed, pc, canvas, exit, parent,
                   quads, probe, inside, fit>>

\* split: vals is empty: return.
SplitReturns ==
    /\ stack # <<>>
    /\ Top.fn = "split" /\ Top.at = "reinsert"
    /\ Top.vals = <<>>
    /\ stack' = Popped
    /\ UNCHANGED <<tree, panicked, inserted, ticks, changed, pc, canvas, exit, parent,
                   quads, probe, inside, fit>>

\* insert: after split, self.children[i].insert(v); an index out of range
\* panics and unwinds the stack.
InsertDispatches ==
    /\ stack # <<>>
    /\ Top.fn = "insert" /\ Top.at = "dispatch"
    /\ IF ChildIndex(Top.q) >= Len(tree[Top.node].children)
       THEN /\ panicked' = TRUE
            /\ stack' = <<>>
       ELSE /\ panicked' = panicked
            /\ stack' = Append(WithTop([Top EXCEPT !.at = "return"]),
                               Frame("insert",
                                     tree[Top.node].children[ChildIndex(Top.q) + 1],
                                     "entry", Top.v, None, <<>>))
    /\ UNCHANGED <<tree, inserted, ticks, changed, pc, canvas, exit, parent, quads,
                   probe, inside, fit>>

\* insert: the child's insert returned: return.
InsertReturns ==
    /\ stack # <<>>
    /\ Top.fn = "insert" /\ Top.at = "return"
    /\ stack' = Popped
    /\ UNCHANGED <<tree, panicked, inserted, ticks, changed, pc, canvas, exit, parent,
                   quads, probe, inside, fit>>

\* One step of the call in progress.
Step ==
    \/ InsertPush
    \/ InsertCallsSplit
    \/ SplitSpawns
    \/ SplitSkips
    \/ SplitReinserts
    \/ SplitReturns
    \/ InsertDispatches
    \/ InsertReturns

NextSteps ==
    \/ \E b \in Boxes : CallInsert(b)
    \/ Step

SpecSteps == InitSteps /\ [][NextSteps]_vars

\* The thread that called insert keeps running until the call returns.
SpecStepsFair == SpecSteps /\ WF_vars(Step)

-----------------------------------------------------------------------------
(* Helpers of the properties *)

Ids(values) == {values[i].id : i \in 1..Len(values)}

\* The nodes of the subtree rooted at p, following the children vectors.
RECURSIVE Subtree(_, _)
Subtree(nodes, p) ==
    {p} \cup UNION {Subtree(nodes, nodes[p].children[i]) :
                        i \in 1..Len(nodes[p].children)}

\* The elements stored in the nodes of a set.
StoredIn(nodes, ps) == UNION {{nodes[p].values[i] : i \in 1..Len(nodes[p].values)} : p \in ps}

\* The nodes an insert of v started at p visits in the tree as it is now
\* (nodes created by the call itself are not listed).
RECURSIVE Route(_, _, _)
Route(nodes, p, v) ==
    {p} \cup
    (IF ~is_leaf(nodes[p]) /\ fits(nodes[p], v) # None
     THEN Route(nodes, nodes[p].children[ChildIndex(fits(nodes[p], v)) + 1], v)
     ELSE {})

\* Unit cells covered by a box.
Cells(b) == {<<i, j>> : i \in b.x..(b.x + b.w - 1), j \in b.y..(b.y + b.h - 1)}

Area(b) == b.w * b.h

-----------------------------------------------------------------------------
(* C1 *)

\* C1: in every state reachable by insert and update calls, a node that has
\* children holds only elements whose box is inside none of the four
\* quadrant boxes of its zone.
BranchHoldsOnlyOverflow ==
    ~panicked =>
        \A p \in DOMAIN tree :
            ~is_leaf(tree[p]) =>
                \A i \in 1..Len(tree[p].values) :
                    fits(tree[p], tree[p].values[i]) = None

-----------------------------------------------------------------------------
(* C2 *)

\* C2: every insert, split and update call returns normally; no call aborts
\* on an index out of range.
AllCallsReturn == ~panicked

-----------------------------------------------------------------------------
(* C3 *)

\* The elements of node self that report a change and leave its zone.
Leavers(self) ==
    {self.values[i].id : i \in
        {k \in 1..Len(self.values) :
            /\ TestValUpdate(self.values[k]).changed
            /\ ~is_inside(bounding_box(TestValUpdate(self.values[k]).val), self.zone)}}

\* C3: an update that returns removes from each node exactly the elements
\* that changed and left the node's zone; they are stored nowhere in the
\* tree afterwards, and every other element stays in its node.
UpdateRemovesExactlyLeavers ==
    [][(ticks' = ticks + 1 /\ ~panicked') =>
          \A p \in DOMAIN tree :
              /\ p \in DOMAIN tree'
              /\ Ids(tree'[p].values) = Ids(tree[p].values) \ Leavers(tree[p])
              /\ \A q \in DOMAIN tree' :
                    Ids(tree'[q].values) \cap Leavers(tree[p]) = {}]_vars

-----------------------------------------------------------------------------
(* C4 *)

\* C4: for a parent with even w and h the four quadrant boxes cover the
\* parent exactly, no two of them overlap, and their areas add up to the
\* parent's area.
EvenQuadrantsTile ==
    (DOMAIN quads = Quadrants /\ parent.w % 2 = 0 /\ parent.h % 2 = 0) =>
        /\ UNION {Cells(quads[q]) : q \in Quadrants} = Cells(parent)
        /\ \A q1, q2 \in Quadrants :
              q1 # q2 => Cells(quads[q1]) \cap Cells(quads[q2]) = {}
        /\ Area(quads["TopLeft"]) + Area(quads["TopRight"])
             + Area(quads["BottomLeft"]) + Area(quads["BottomRight"]) = Area(parent)

-----------------------------------------------------------------------------
(* C5 *)

Floor2(n) == n \div 2

Ceil2(n) == (n + 1) \div 2

\* The position and the left/top extents claimed for every quadrant.
NearSideAndOffsets(q, b) ==
    /\ q \in {"TopLeft", "BottomLeft"} => b.x = parent.x /\ b.w = Ceil2(parent.w)
    /\ q \in {"TopRight", "BottomRight"} => b.x = parent.x + Floor2(parent.w) + 1
    /\ q \in {"TopLeft", "TopRight"} => b.y = parent.y /\ b.h = Ceil2(parent.h)
    /\ q \in {"BottomLeft", "BottomRight"} => b.y = parent.y + Floor2(parent.h) + 1

\* C5 as stated: left quadrants get ceil(w/2) at the parent's x, right
\* quadrants get floor(w/2) at offset floor(w/2)+1 (same for the height);
\* w=5 at x=0 gives TopLeft width 3 at x=0 and TopRight width 2 at x=3.
QuadrantFarSideFloor ==
    \A q \in DOMAIN quads :
        /\ NearSideAndOffsets(q, quads[q])
        /\ q \in {"TopRight", "BottomRight"} => quads[q].w = Floor2(parent.w)
        /\ q \in {"BottomLeft", "BottomRight"} => quads[q].h = Floor2(parent.h)

\* C5 amended: left quadrants get ceil(w/2) at the parent's x, right
\* quadrants get w - floor(w/2) = ceil(w/2) at offset floor(w/2)+1 (same
\* for the height); w=5 at x=0 gives TopLeft width 3 at x=0 and TopRight
\* width 3 at x=3.
QuadrantFarSideCeil ==
    /\ \A q \in DOMAIN quads :
          /\ NearSideAndOffsets(q, quads[q])
          /\ q \in {"TopRight", "BottomRight"} => quads[q].w = Ceil2(parent.w)
          /\ q \in {"BottomLeft", "BottomRight"} => quads[q].h = Ceil2(parent.h)
    /\ (parent.w = 5 /\ parent.x = 0 /\ {"TopLeft", "TopRight"} \subseteq DOMAIN quads) =>
          /\ quads["TopLeft"].x = 0 /\ quads["TopLeft"].w = 3
          /\ quads["TopRight"].x = 3 /\ quads["TopRight"].w = 3

OddWidthQuadrantsComputed ==
    /\ parent.w = 5 /\ parent.x = 0 /\ parent.h = 3
    /\ DOMAIN quads = Quadrants
    /\ quads["TopRight"].w = 3
    /\ quads["BottomLeft"].h = 2

-----------------------------------------------------------------------------
(* C6 *)

\* The case of C6: an empty tree with max_values = 1 and max_depth = 4 that
\* received one box inside the root's TopLeft quadrant box, then one inside
\* its TopRight quadrant box, and nothing else.
TopLeftThenTopRight ==
    /\ tree[Root].max_values = 1
    /\ tree[Root].max_depth = 4
    /\ ticks = 0
    /\ Len(inserted) = 2
    /\ is_inside(inserted[1], quadrant_bbox(tree[Root].zone, "TopLeft"))
    /\ is_inside(inserted[2], quadrant_bbox(tree[Root].zone, "TopRight"))

\* C6: after these two inserts there was exactly one split: the root is the
\* only node with children, its four children are leaves, the root holds no
\* element, the first element is in the TopLeft child and the second in the
\* TopRight child.
InsertCapacity ==
    TopLeftThenTopRight =>
        LET root == tree[Root] IN
        /\ ~panicked
        /\ Len(root.children) = 4
        /\ DOMAIN tree = {Root} \cup {root.children[i] : i \in 1..4}
        /\ \A i \in 1..4 : is_leaf(tree[root.children[i]])
        /\ root.values = <<>>
        /\ tree[root.children[1]].values = <<TestVal(1, inserted[1])>>
        /\ tree[root.children[2]].values = <<TestVal(2, inserted[2])>>
        /\ tree[root.children[3]].values = <<>>
        /\ tree[root.children[4]].values = <<>>

TopLeftThenTopRightInserted ==
    /\ TopLeftThenTopRight
    /\ ~is_leaf(tree[Root])

-----------------------------------------------------------------------------
(* C7 *)

\* C7: an insert that reaches a branch, or a full leaf with max_depth > 0,
\* with an element whose box is inside none of the node's quadrant boxes
\* appends the element to that node's values and changes nothing else (no
\* child receives it, a leaf stays a leaf); (120,10,40,10) inserted into a
\* split root (0,0,256,256) is stored on the root.
OverflowRetained ==
    ~panicked =>
        /\ \A p \in DOMAIN tree : \A b \in Boxes :
              LET v == TestVal(Len(inserted) + 1, b)
                  r == insert([nodes |-> tree, panic |-> FALSE], p, v)
              IN  (TriesSubtree(tree[p]) /\ fits(tree[p], v) = None) =>
                      /\ ~r.panic
                      /\ r.nodes = [tree EXCEPT ![p].values = Append(@, v)]
        /\ (tree[Root].zone = AABB(0, 0, 256, 256) /\ ~is_leaf(tree[Root])) =>
              LET v == TestVal(Len(inserted) + 1, AABB(120, 10, 40, 10))
                  r == insert([nodes |-> tree, panic |-> FALSE], Root, v)
              IN  r.nodes = [tree EXCEPT ![Root].values = Append(@, v)]

\* The last insert call put (120,10,40,10) on the split root (0,0,256,256).
StraddlerStoredOnSplitRoot ==
    /\ ~panicked
    /\ ticks = 0
    /\ tree[Root].zone = AABB(0, 0, 256, 256)
    /\ ~is_leaf(tree[Root])
    /\ Len(inserted) = 3
    /\ Len(tree[Root].values) >= 1
    /\ tree[Root].values[Len(tree[Root].values)]
         = TestVal(Len(inserted), AABB(120, 10, 40, 10))
    /\ fits(tree[Root], TestVal(2, inserted[2])) # None

-----------------------------------------------------------------------------
(* C8 *)

\* main has made its four insert calls and has not called update yet.
Seeded ==
    /\ Len(inserted) = Len(MainBoxes)
    /\ pc \in {"poll", "update"}
    /\ canvas = <<>>

\* C8: after main's four inserts into the default tree the root is not a
\* leaf, the first two elements are stored in the subtree of the root's
\* TopLeft child, the third and fourth in the subtree of its BottomRight
\* child, and no node holds more than one element.
EndToEnd ==
    Seeded =>
        LET root == tree[Root] IN
        /\ ~panicked
        /\ ~is_leaf(root)
        /\ Len(root.children) = 4
        /\ {TestVal(1, MainBoxes[1]), TestVal(2, MainBoxes[2])}
              \subseteq StoredIn(tree, Subtree(tree, root.children[1]))
        /\ {TestVal(3, MainBoxes[3]), TestVal(4, MainBoxes[4])}
              \subseteq StoredIn(tree, Subtree(tree, root.children[4]))
        /\ \A p \in DOMAIN tree : Len(tree[p].values) <= 1

SeededTree ==
    /\ Seeded
    /\ pc = "update"
    /\ Cardinality(StoredIn(tree, DOMAIN tree)) = 4

-----------------------------------------------------------------------------
(* C9 *)

\* C9: in every step each node stays in the tree with its zone; a node with
\* children keeps the same four children; a leaf gets children only in an
\* insert call that reaches it while it holds at least max_values elements,
\* has max_depth > 0 and the inserted element fits one of its quadrants; a
\* step that is not an insert creates no node, and a node created with
\* children has max_depth > 0, four children and an element below it.
NodeStateOnlyGrows ==
    [][LET isInsert == Len(inserted') = Len(inserted) + 1
           v == TestVal(Len(inserted'), inserted'[Len(inserted')])
       IN  /\ \A p \in DOMAIN tree :
                 /\ p \in DOMAIN tree'
                 /\ tree'[p].zone = tree[p].zone
                 /\ ~is_leaf(tree[p]) =>
                       /\ Len(tree[p].children) = 4
                       /\ tree'[p].children = tree[p].children
                 /\ (is_leaf(tree[p]) /\ ~is_leaf(tree'[p])) =>
                       /\ isInsert
                       /\ p \in Route(tree, Root, v)
                       /\ Len(tree[p].values) >= tree[p].max_values
                       /\ tree[p].max_depth > 0
                       /\ fits(tree[p], v) # None
           /\ ~isInsert => DOMAIN tree' = DOMAIN tree
           /\ \A p \in DOMAIN tree' \ DOMAIN tree :
                 ~is_leaf(tree'[p]) =>
                       /\ tree'[p].max_depth > 0
                       /\ Len(tree'[p].children) = 4
                       /\ StoredIn(tree', Subtree(tree', p) \ {p}) # {}
      ]_vars

\* An update ran on a tree whose root had been split by an insert.
BranchUpdated ==
    /\ ~panicked
    /\ ticks >= 1
    /\ Len(inserted) >= 2
    /\ Len(tree[Root].children) = 4
    /\ StoredIn(tree, DOMAIN tree) # {}

-----------------------------------------------------------------------------
(* C10 *)

\* C10: split called a second time on a node leaves the tree exactly as
\* the first call left it: same children, same zones, same elements in the
\* same places.
SplitIdempotent ==
    ~panicked =>
        \A p \in DOMAIN tree :
            LET once == split([nodes |-> tree, panic |-> FALSE], p)
            IN  split(once, p) = once

\* The second and the third insert both routed their element to a quadrant
\* of the root, so the third called split on the root split by the second.
SplitCalledOnSplitRoot ==
    /\ ~panicked
    /\ ticks = 0
    /\ Len(inserted) = 3
    /\ tree[Root].max_values <= 1
    /\ tree[Root].max_depth > 0
    /\ fits(tree[Root], TestVal(2, inserted[2])) # None
    /\ fits(tree[Root], TestVal(3, inserted[3])) # None
    /\ Len(tree[Root].children) = 4

-----------------------------------------------------------------------------
(* C11 *)

\* C11: a node whose max_depth is 0 is a leaf in every reachable state, and
\* an insert that reaches it appends the element to its values and changes
\* nothing else, whatever max_values is and however many elements it holds.
DepthZeroIsBucket ==
    ~panicked =>
        \A p \in DOMAIN tree :
            tree[p].max_depth = 0 =>
                /\ is_leaf(tree[p])
                /\ \A b \in Boxes :
                      LET v == TestVal(Len(inserted) + 1, b)
                          r == insert([nodes |-> tree, panic |-> FALSE], p, v)
                      IN  /\ ~r.panic
                          /\ r.nodes = [tree EXCEPT ![p].values = Append(@, v)]

\* Inserts alone filled a node of max_depth 0 beyond max_values.
DepthZeroOverCapacity ==
    /\ ~panicked
    /\ ticks = 0
    /\ \E p \in DOMAIN tree :
          /\ tree[p].max_depth = 0
          /\ is_leaf(tree[p])
          /\ Len(tree[p].values) > tree[p].max_values
          /\ Len(tree[p].values) >= 2

-----------------------------------------------------------------------------
(* C12 *)

\* The points with integer coordinates of the closed rectangle b.
Points(b) == (b.x .. b.x + b.w) \X (b.y .. b.y + b.h)

Corners(b) == {b.x, b.x + b.w} \X {b.y, b.y + b.h}

\* C12: is_inside(a, b) is true exactly when a.x >= b.x, a.x + a.w <= b.x +
\* b.w, a.y >= b.y and a.y + a.h <= b.y + b.h, that is when the four corners
\* of a are points of the closed rectangle b; touching edges count as inside.
InsideIffWithinEdges ==
    inside # <<>> =>
        /\ inside[1] = (/\ probe.x >= parent.x
                     /\ probe.x + probe.w <= parent.x + parent.w
                     /\ probe.y >= parent.y
                     /\ probe.y + probe.h <= parent.y + parent.h)
        /\ inside[1] = (Corners(probe) \subseteq Points(parent))
        /\ (probe = parent => inside[1])

\* is_inside answered true for a box that touches both vertical edges of the
\* other box.
InsideTouchingEdges ==
    /\ inside = <<TRUE>>
    /\ probe.w > 0
    /\ probe.x = parent.x
    /\ probe.x + probe.w = parent.x + parent.w
    /\ probe.y + probe.h = parent.y + parent.h

-----------------------------------------------------------------------------
(* C13 *)

RECURSIVE PreOrder(_, _)
RECURSIVE PreOrderEach(_, _)

\* The render requests of the subtree at p in pre-order: the zone outline,
\* the node's elements in order, then the children's subtrees in order.
PreOrder(nodes, p) ==
    <<[kind |-> "zone", rect |-> nodes[p].zone]>>
        \o [i \in 1..Len(nodes[p].values) |->
               [kind |-> "value", rect |-> nodes[p].values[i].bbox]]
        \o PreOrderEach(nodes, nodes[p].children)

PreOrderEach(nodes, cs) ==
    IF cs = <<>> THEN <<>>
    ELSE PreOrder(nodes, Head(cs)) \o PreOrderEach(nodes, Tail(cs))

\* C13: a draw call issues the render requests of the tree in pre-order; on
\* a target that rejects the request after k accepted ones the call returns
\* the failure and the requests issued are the first k+1 of the pre-order
\* sequence; on a target that rejects none it returns Ok after all of them.
DrawIsPreOrderPrefix ==
    pc = "drawn" =>
        LET full == PreOrder(tree, Root) IN
        \/ /\ exit = "ok"
           /\ canvas = full
        \/ /\ exit = "err"
           /\ \E k \in 0..MaxFailAt :
                 /\ k < Len(full)
                 /\ canvas = SubSeq(full, 1, k + 1)

\* A draw of a split root that holds an element failed after the root's
\* outline, the root's element and a child's outline were issued.
DrawFailedBelowRootValue ==
    /\ pc = "drawn"
    /\ exit = "err"
    /\ ~is_leaf(tree[Root])
    /\ tree[Root].values # <<>>
    /\ Len(canvas) >= 3
    /\ Len(canvas) < Len(PreOrder(tree, Root))

-----------------------------------------------------------------------------
(* C14 *)

\* The number of child links between the root and p.
RECURSIVE Level(_, _)
Level(nodes, p) ==
    IF p = Root THEN 0
    ELSE 1 + Level(nodes, CHOOSE q \in DOMAIN nodes :
                              \E i \in 1..Len(nodes[q].children) :
                                  nodes[q].children[i] = p)

\* C14: every node has no child or four; the i-th child's zone is the box of
\* the i-th quadrant of its parent's zone, its max_values is the parent's
\* and its max_depth the parent's minus one; so no node lies more than the
\* root's max_depth levels below the root.
ChildrenAreTheFourQuadrants ==
    /\ DOMAIN tree = Subtree(tree, Root)
    /\ \A p \in DOMAIN tree :
          /\ Len(tree[p].children) \in {0, 4}
          /\ \A i \in 1..Len(tree[p].children) :
                LET c == tree[tree[p].children[i]] IN
                /\ c.zone = quadrant_bbox(tree[p].zone, all[i])
                /\ c.max_values = tree[p].max_values
                /\ c.max_depth = tree[p].max_depth - 1
          /\ tree[p].max_depth >= 0
          /\ Level(tree, p) <= tree[Root].max_depth
          /\ Level(tree, p) + tree[p].max_depth = tree[Root].max_depth

\* The default tree was split down to its deepest level, max_depth levels
\* below the root.
SplitDownToDepthZero ==
    /\ tree[Root].max_depth = default.max_depth
    /\ \E p \in DOMAIN tree :
          /\ Level(tree, p) = default.max_depth
          /\ tree[p].max_depth = 0
          /\ tree[p].values # <<>>

-----------------------------------------------------------------------------
(* C15 *)

\* The position of element e in the sequence orig.
Pos(orig, e) == CHOOSE k \in 1..Len(orig) : orig[k] = e

\* The elements of seq are elements of orig, in the order they have in orig.
InOrderOf(seq, orig) ==
    /\ \A i \in 1..Len(seq) : \E k \in 1..Len(orig) : orig[k] = seq[i]
    /\ \A i, j \in 1..Len(seq) : i < j => Pos(orig, seq[i]) < Pos(orig, seq[j])

\* C15: split hands the node's values back in their original order: in the
\* node and in every node of its new subtree the values stand in the order
\* they had in the node before the split; in every reachable tree the
\* values of a node stand in the order of their insertion.
SplitKeepsOrder ==
    /\ \A p \in DOMAIN tree :
          \A i, j \in 1..Len(tree[p].values) :
              i < j => tree[p].values[i].id < tree[p].values[j].id
    /\ ~panicked =>
          \A p \in DOMAIN tree :
              CanSplit(tree[p]) =>
                  LET s == split([nodes |-> tree, panic |-> FALSE], p) IN
                  /\ ~s.panic
                  /\ \A q \in Subtree(s.nodes, p) :
                        InOrderOf(s.nodes[q].values, tree[p].values)

\* The third insert split the root, and the split handed the first two
\* elements back to the root.
SplitReturnedTwoToRoot ==
    /\ ticks = 0
    /\ Len(inserted) = 3
    /\ ~is_leaf(tree[Root])
    /\ Ids(tree[Root].values) = {1, 2}

-----------------------------------------------------------------------------
(* C16 *)

\* Element e of node p before an update call was updated once by it: it is
\* still held by the node with its box translated once, or it was removed.
UpdatedOnce(p, e) ==
    \A i \in 1..Len(tree'[p].values) :
        tree'[p].values[i].id = e.id =>
            tree'[p].values[i] = TestValUpdate(e).val

\* C16: one update call updates every element stored in the tree exactly
\* once, those of the children before the node's own, and returns true
\* exactly when some element's update returned true.
UpdateReachesEveryElement ==
    [][ticks' = ticks + 1 =>
          /\ \A p \in DOMAIN tree :
                \A i \in 1..Len(tree[p].values) : UpdatedOnce(p, tree[p].values[i])
          /\ ~panicked' =>
                changed' = (\E p \in DOMAIN tree : \E i \in 1..Len(tree[p].values) :
                               TestValUpdate(tree[p].values[i]).changed)]_vars

-----------------------------------------------------------------------------
(* C17 *)

\* The quadrants of the zone parent whose box holds the box probe.
Holding == {q \in Quadrants : is_inside(probe, quadrant_bbox(parent, q))}

\* C17 as stated: for every zone and every element box, the box is inside
\* at most one of the four quadrant boxes.
AtMostOneQuadrantHolds ==
    fit # "unasked" => Cardinality(Holding) <= 1

\* C17: a box is inside at most one of the four quadrant boxes unless it has
\* zero width in a zone of odd width or zero height in a zone of odd height;
\* fits returns None when no quadrant box holds the box, and else the first
\* holding quadrant in the order TopLeft, TopRight, BottomLeft, BottomRight.
AtMostOneQuadrantHoldsOffSeam ==
    fit # "unasked" =>
        /\ (/\ ~(parent.w % 2 = 1 /\ probe.w = 0)
            /\ ~(parent.h % 2 = 1 /\ probe.h = 0)) => Cardinality(Holding) <= 1
        /\ Holding = {} => fit = None
        /\ Holding # {} =>
              \E i \in 1..Len(all) :
                  /\ fit = all[i]
                  /\ all[i] \in Holding
                  /\ \A j \in 1..(i - 1) : all[j] \notin Holding

\* fits was asked about a box of positive width that starts on the line
\* where the left and right quadrants of an odd zone touch.
PositiveWidthOnOddSeam ==
    /\ fit = "TopRight"
    /\ parent.w % 2 = 1
    /\ probe.w > 0
    /\ probe.x = parent.x + (parent.w \div 2) + 1
    /\ is_inside(AABB(probe.x, probe.y, 0, probe.h),
                 quadrant_bbox(parent, "TopLeft"))

-----------------------------------------------------------------------------
(* C18 *)

\* The places of the tree where an element is stored.
Slots(nodes) ==
    UNION {{<<p, i>> : i \in 1..Len(nodes[p].values)} : p \in DOMAIN nodes}

\* The number of times e is stored in the tree.
Count(nodes, e) ==
    Cardinality({s \in Slots(nodes) : nodes[s[1]].values[s[2]] = e})

Stored(nodes) == {nodes[s[1]].values[s[2]] : s \in Slots(nodes)}

\* C18: an insert call conserves the elements: afterwards the tree stores
\* every element as many times as before, and the new element once more.
InsertConserves ==
    [][Len(inserted') = Len(inserted) + 1 =>
          LET v == TestVal(Len(inserted'), inserted'[Len(inserted')]) IN
          /\ ~panicked'
          /\ \A e \in Stored(tree) \cup Stored(tree') \cup {v} :
                Count(tree', e) = Count(tree, e) + (IF e = v THEN 1 ELSE 0)]_vars

\* Three inserts split the root and the three elements are stored, each
\* once, not all in one node.
ThreeStoredAfterSplit ==
    /\ ticks = 0
    /\ ~is_leaf(tree[Root])
    /\ Cardinality(Slots(tree)) = 3
    /\ Cardinality(Stored(tree)) = 3
    /\ \A p \in DOMAIN tree : Len(tree[p].values) < 3

-----------------------------------------------------------------------------
(* C19 *)

\* C19: as long as no update was called, every element stored in a node
\* other than the root has its box inside that node's zone.
InsertedInsideZone ==
    ticks = 0 =>
        \A p \in DOMAIN tree \ {Root} :
            \A i \in 1..Len(tree[p].values) :
                is_inside(bounding_box(tree[p].values[i]), tree[p].zone)

\* Inserts alone left an element on the split root and put another one two
\* levels or more below the root.
StoredBelowRootByInserts ==
    /\ ticks = 0
    /\ ~is_leaf(tree[Root])
    /\ tree[Root].values # <<>>
    /\ \E p \in DOMAIN tree : Len(p) >= 2 /\ tree[p].values # <<>>

-----------------------------------------------------------------------------
(* C20 *)

\* The tree the client's insert calls made so far give when each call is
\* taken as a whole.
RECURSIVE InsertAll(_, _, _)
InsertAll(h, bs, n) ==
    IF bs = <<>> THEN h
    ELSE InsertAll(insert(h, Root, TestVal(n, Head(bs))), Tail(bs), n + 1)

\* No node that has children gets its children vector changed.
NoResplit ==
    \A p \in DOMAIN tree :
        tree[p].children # <<>> => tree'[p].children = tree[p].children

\* Every activation record works on a node at most max_depth levels below
\* the node of the outermost call, max_depth being that node's.
WithinMaxDepth ==
    \A i \in 1..Len(stack) :
        Level(tree, stack[i].node) - Level(tree, stack[1].node)
            <= tree[stack[1].node].max_depth

\* A call that returned left the tree that insert computes.
ReturnsInsertResult ==
    (stack = <<>> /\ ~panicked) =>
        LET r == tree[Root]
            h0 == [nodes |-> (Root :> new(r.max_values, r.max_depth,
                                          r.zone.x, r.zone.y, r.zone.w, r.zone.h)),
                   panic |-> FALSE]
        IN  tree = InsertAll(h0, inserted, 1).nodes

\* C20: every insert call returns, for max_values 0 and more and max_depth
\* 0 and more; while it runs, insert and split never change the children of
\* a node that has children and never work on a node more than max_depth
\* levels below the node insert was called on, and the call does not panic.
InsertTerminates ==
    /\ (stack # <<>>) ~> (stack = <<>>)
    /\ [][NoResplit]_vars
    /\ [](WithinMaxDepth /\ ReturnsInsertResult /\ ~panicked)

\* An insert nested in a split nested in an insert works on a node at the
\* deepest level of the default tree.
NestedAtDeepestLevel ==
    /\ Len(stack) >= 7
    /\ tree[Root].max_depth = default.max_depth
    /\ Top.fn = "insert"
    /\ Level(tree, Top.node) = tree[Root].max_depth
    /\ \E i \in 1..Len(stack) : stack[i].fn = "split" /\ stack[i].at = "reinsert"

-----------------------------------------------------------------------------
(* C21 *)

\* The nodes of a tree with their zones, limits and children, without the
\* elements.
Structure(nodes) == [p \in DOMAIN nodes |-> [nodes[p] EXCEPT !.values = <<>>]]

\* The tree of the demo after its four inserts.
DemoSeeded ==
    InsertAll([nodes |-> (Root :> default), panic |-> FALSE], MainBoxes, 1).nodes

\* Every node's value collection is empty and the nodes are those the tree
\* had after seeding.
DemoEmptied ==
    /\ ~panicked
    /\ Len(inserted) = Len(MainBoxes)
    /\ tree = Structure(DemoSeeded)

\* C21: in the demo, if update ticks keep coming, then from some tick on
\* every node's value collection is empty, and the nodes, zones and
\* children are those the tree had after seeding; once emptied the tree
\* stays so, and the ticks never change the structure.
DemoEventuallyEmpty ==
    /\ []<>(pc = "update") => <>[]DemoEmptied
    /\ [][DemoEmptied => DemoEmptied']_vars
    /\ [](Len(inserted) = Len(MainBoxes) =>
             /\ ~panicked
             /\ Structure(tree) = Structure(DemoSeeded))

\* The demo is about to tick on a tree that ticks have already emptied.
DemoTicksOnEmptyTree ==
    /\ pc = "update"
    /\ DemoEmptied
    /\ Cardinality(StoredIn(DemoSeeded, DOMAIN DemoSeeded)) = Len(MainBoxes)
    /\ Cardinality(DOMAIN tree) > Len(MainBoxes)

====
